---- MODULE Spec2Model ----
(***************************************************************************)
(* State-machine model of downloader.py: the resolution matcher            *)
(* (available_resolutions), the selector (prompt_for_resolution and the    *)
(* -r handling of main), and the download invoker (download_video).        *)
(*                                                                         *)
(* A format record is a Python dict: a function from the keys it holds to  *)
(* their values.  A key the dict lacks is simply not in its DOMAIN.  A     *)
(* key held with the value None holds the integer None below (no height    *)
(* or size of a real record is negative).  Every record carries the        *)
(* format_id the extractor gives it; the program never reads it, it only   *)
(* tells two records of the same height and size apart.                    *)
(*                                                                         *)
(* filesize_approx is left out of the records: available_resolutions       *)
(* never reads it and prompt_for_resolution reads it only to format the    *)
(* text of a listing line.                                                 *)
(***************************************************************************)
EXTENDS Integers, Sequences, FiniteSets, TLC

VARIABLES
    pc,          \* position of the program
    formats,     \* available_resolutions: the records it was called with
    i,           \* available_resolutions: position of the for loop in formats
    matches,     \* the match table: supported height -> format record
    exc,         \* the uncaught exception that ended the run, "" if none
    argRes,      \* args.resolution: None, or one of the argparse choices
    resolution,  \* main's local variable resolution
    ordered,     \* prompt_for_resolution: the sorted (height, record) items
    reads,       \* number of lines read from standard input
    lastLine,    \* the line the last input() call returned
    downloads,   \* the resolution argument of each download_video call
    stderr,      \* the messages main printed to standard error
    exitCode     \* main's return value, None while it has not returned

vars == <<pc, formats, i, matches, exc, argRes, resolution, ordered, reads,
          lastLine, downloads, stderr, exitCode>>

scanVars == <<formats, i>>
mainVars == <<argRes, resolution, ordered, reads, lastLine, downloads, stderr,
              exitCode>>

----------------------------------------------------------------------------
(* Program constants and Python values *)

SUPPORTED_HEIGHTS == <<360, 480, 720, 1080, 1440, 2160>>

None == -1

\* bool(v) of an integer-or-None value
Truthy(v) == v # None /\ v # 0

\* d.get(key, default)
Get(d, key, default) == IF key \in DOMAIN d THEN d[key] ELSE default

\* x in lst, for a list lst
InList(x, lst) == \E k \in 1..Len(lst) : lst[k] = x

\* lst.index(x), 0-based, for x in lst
IndexOf(lst, x) == (CHOOSE k \in 1..Len(lst) : lst[k] = x /\ \A j \in 1..(k-1) : lst[j] # x) - 1

\* the empty dict
EmptyDict == [k \in {} |-> None]

\* d with d[key] = value executed
DictSet(d, key, value) == [k \in DOMAIN d \cup {key} |-> IF k = key THEN value ELSE d[k]]

----------------------------------------------------------------------------
(* Bounds and input sets *)

MaxFormats == 2
MaxReads == 2

\* heights of the input records: one outside the catalog, two inside
HeightValues == {240, 360, 480}
VcodecValues == {"none", "avc1"}
SizeValues == {None, 0, 1, 2}

HeightParts == {EmptyDict} \cup {[height |-> h] : h \in HeightValues}
VcodecParts == {EmptyDict} \cup {[vcodec |-> v] : v \in VcodecValues}
SizeParts == {EmptyDict} \cup {[filesize |-> s] : s \in SizeValues}

\* the records without their format_id
FormatRecords == {h @@ v @@ s : h \in HeightParts, v \in VcodecParts, s \in SizeParts}

\* the list of the records f[1], ..., f[n], the k-th with format_id k
FormatList(f) == [k \in DOMAIN f |-> [format_id |-> k] @@ f[k]]

----------------------------------------------------------------------------
(* available_resolutions *)

\* a slip at line 33: the audio-only test left out
SkipsNoHeight(fmt) == ~Truthy(Get(fmt, "height", None))

\* line 33: not height or fmt.get("vcodec") == "none"
SkipsNoVideo(fmt) ==
    \/ ~Truthy(Get(fmt, "height", None))
    \/ ("vcodec" \in DOMAIN fmt /\ fmt["vcodec"] = "none")

\* a slip at line 36: the catalog test left out
SkipsNothing(height) == FALSE

\* line 36: height not in SUPPORTED_HEIGHTS
SkipsUnsupported(height) == ~InList(height, SUPPORTED_HEIGHTS)

\* line 43, the left operand of "and"
HasFilesize(fmt) == Truthy(Get(fmt, "filesize", 0))

\* line 43, the comparison: int > None raises TypeError
CompareRaises(fmt, current) == Get(current, "filesize", 0) = None

\* a slip at line 43: the comparison reversed
IsSmaller(fmt, current) == Get(fmt, "filesize", 0) < Get(current, "filesize", 0)

\* a slip at line 43: >= for >
IsLargerOrEqual(fmt, current) == Get(fmt, "filesize", 0) >= Get(current, "filesize", 0)

\* line 43, the comparison when it does not raise
IsLarger(fmt, current) == Get(fmt, "filesize", 0) > Get(current, "filesize", 0)

\* lines 32-44, one pass of the loop body over the table m:
\* the exception it raises ("" if none) and the table it leaves.
\* Line 40, not current: matches.get(height) is None for a missing key and
\* otherwise a stored record, which holds a height and so is never falsy.
LoopBody(m, fmt) ==
    LET height == Get(fmt, "height", None)
        keep == [exc |-> "", matches |-> m]
        store == [exc |-> "", matches |-> DictSet(m, height, fmt)]
    IN  IF SkipsNoVideo(fmt) THEN keep
        ELSE IF SkipsUnsupported(height) THEN keep
        ELSE IF height \notin DOMAIN m THEN store
        ELSE IF ~HasFilesize(fmt) THEN keep
        ELSE IF CompareRaises(fmt, m[height]) THEN [exc |-> "TypeError", matches |-> m]
        ELSE IF IsLarger(fmt, m[height]) THEN store
        ELSE keep

RECURSIVE ScanFrom(_, _, _)
\* lines 31-45, the loop from position k on
ScanFrom(m, fs, k) ==
    IF k > Len(fs) THEN [exc |-> "", matches |-> m]
    ELSE LET r == LoopBody(m, fs[k])
         IN  IF r.exc # "" THEN r ELSE ScanFrom(r.matches, fs, k + 1)

\* lines 28-45, the whole call
available_resolutions(fs) == ScanFrom(EmptyDict, fs, 1)

----------------------------------------------------------------------------
(* The matcher on its own: called with any list of records *)

InitMatch ==
    /\ \E n \in 0..MaxFormats : \E f \in [1..n -> FormatRecords] : formats = FormatList(f)
    /\ i = 1
    /\ matches = EmptyDict
    /\ pc = "scan"
    /\ exc = ""
    /\ argRes = None
    /\ resolution = None
    /\ ordered = <<>>
    /\ reads = 0
    /\ lastLine = <<>>
    /\ downloads = <<>>
    /\ stderr = <<>>
    /\ exitCode = None

\* lines 31-44: the loop body on the next record
ForEachFormat ==
    /\ pc = "scan"
    /\ i <= Len(formats)
    /\ LET r == LoopBody(matches, formats[i])
       IN  /\ matches' = r.matches
           /\ exc' = r.exc
           /\ pc' = IF r.exc # "" THEN "raised" ELSE "scan"
    /\ i' = i + 1
    /\ UNCHANGED <<formats, mainVars>>

\* line 45: return matches
ReturnMatches ==
    /\ pc = "scan"
    /\ i > Len(formats)
    /\ pc' = "returned"
    /\ UNCHANGED <<formats, i, matches, exc, mainVars>>

NextMatch == ForEachFormat \/ ReturnMatches

SpecMatch == InitMatch /\ [][NextMatch]_vars

----------------------------------------------------------------------------
(* Lines of standard input *)

\* A line is a sequence of characters.  "sup2" stands for the character
\* SUPERSCRIPT TWO (U+00B2): str.isdigit() is true of it and int() rejects it.
Whitespace == {" "}
DecimalDigits == {"0", "1", "2", "3"}
OtherDigits == {"sup2"}

\* the lines a user may type (without the newline)
Lines ==
    { <<>>, <<" ">>, <<"x">>, <<"-", "1">>, <<"1", "x">>, <<"0">>, <<"1">>,
      <<" ", "2", " ">>, <<"0", "2">>, <<"3">>, <<"1", "0">>, <<"sup2">> }

RECURSIVE LStrip(_)
LStrip(s) == IF s # <<>> /\ Head(s) \in Whitespace THEN LStrip(Tail(s)) ELSE s

RECURSIVE RStrip(_)
RStrip(s) ==
    IF s # <<>> /\ s[Len(s)] \in Whitespace THEN RStrip(SubSeq(s, 1, Len(s) - 1)) ELSE s

\* str.strip()
Strip(s) == RStrip(LStrip(s))

\* str.isdigit(): non-empty and every character is a digit
IsDigit(s) == s # <<>> /\ \A k \in 1..Len(s) : s[k] \in DecimalDigits \cup OtherDigits

\* int(s) raises ValueError, for s that passed isdigit()
IntRaises(s) == \E k \in 1..Len(s) : s[k] \notin DecimalDigits

DigitValue(c) == CASE c = "0" -> 0 [] c = "1" -> 1 [] c = "2" -> 2 [] c = "3" -> 3

RECURSIVE IntOf(_)
\* int(s), for s of decimal digits
IntOf(s) ==
    IF s = <<>> THEN 0
    ELSE 10 * IntOf(SubSeq(s, 1, Len(s) - 1)) + DigitValue(s[Len(s)])

----------------------------------------------------------------------------
(* prompt_for_resolution, download_video and main *)

\* parse_args, lines 108-114: -r is omitted or one of choices=SUPPORTED_HEIGHTS
ArgChoices == {None} \cup {SUPPORTED_HEIGHTS[k] : k \in 1..Len(SUPPORTED_HEIGHTS)}

\* line 63, the sort key of an item (height, fmt)
SortKey(item) == IndexOf(SUPPORTED_HEIGHTS, item[1])

RECURSIVE SortedByKey(_)
\* line 63, sorted(items, key=...): the keys of a dict's items are distinct
SortedByKey(items) ==
    IF items = {} THEN <<>>
    ELSE LET first == CHOOSE x \in items : \A y \in items : SortKey(x) <= SortKey(y)
         IN  <<first>> \o SortedByKey(items \ {first})

\* matches.items()
Items(m) == {<<h, m[h]>> : h \in DOMAIN m}

\* line 82: 1 <= index <= len(ordered)
InRange(index, lst) == 1 <= index /\ index <= Len(lst)

\* a slip at line 85: the number typed returned for the height
SelectedIndex(lst, index) == index

\* line 85: ordered[index - 1][0]
SelectedHeight(lst, index) == lst[(index - 1) + 1][1]

\* a slip at line 131: the table not consulted, every -r discarded
AnySupplied(res, m) == Truthy(res)

\* a slip at line 131: the table not consulted, every -r kept
NoneDiscarded(res, m) == FALSE

\* line 131: resolution and resolution not in matches
NotAvailable(res, m) == Truthy(res) /\ res \notin DOMAIN m

\* a slip at line 101: the completion status ignored
NeverFailed(result) == FALSE

\* line 101: result != 0
DownloadFailed(result) == result # 0

\* lines 96-97: the height of ydl_opts["format"], None when the key is not set
FormatOption(res) == IF Truthy(res) THEN res ELSE None

\* formats and i are the locals of a call of available_resolutions that
\* SpecMatch follows record by record; main's call is taken in one step.
Init ==
    /\ pc = "main"
    /\ argRes \in ArgChoices
    /\ formats = <<>>
    /\ i = 0
    /\ matches = EmptyDict
    /\ exc = ""
    /\ resolution = None
    /\ ordered = <<>>
    /\ reads = 0
    /\ lastLine = <<>>
    /\ downloads = <<>>
    /\ stderr = <<>>
    /\ exitCode = None

\* lines 127-128: fetch the metadata and match its formats
FetchAndMatch ==
    /\ pc = "main"
    /\ \E n \in 0..MaxFormats : \E f \in [1..n -> FormatRecords] :
           LET r == available_resolutions(FormatList(f))
           IN  /\ exc' = r.exc
               /\ matches' = IF r.exc # "" THEN matches ELSE r.matches
               /\ pc' = IF r.exc # "" THEN "raised" ELSE "select"
    /\ UNCHANGED <<scanVars, mainVars>>

\* lines 130-139: take -r if the table has it
SelectResolution ==
    /\ pc = "select"
    /\ IF NotAvailable(argRes, matches)
       THEN /\ stderr' = Append(stderr, "not available")
            /\ resolution' = None
       ELSE /\ stderr' = stderr
            /\ resolution' = argRes
    /\ pc' = IF ~Truthy(resolution') THEN "prompt" ELSE "download"
    /\ UNCHANGED <<scanVars, matches, exc, argRes, ordered, reads, lastLine,
                   downloads, exitCode>>

\* lines 140, 57-71: the call of prompt_for_resolution up to the loop; with an
\* empty table it returns None and main returns 1 (lines 141-146)
PromptForResolution ==
    /\ pc = "prompt"
    /\ IF matches = EmptyDict
       THEN /\ stderr' = Append(stderr, "no supported resolutions")
            /\ exitCode' = 1
            /\ pc' = "exit"
            /\ ordered' = ordered
       ELSE /\ ordered' = SortedByKey(Items(matches))
            /\ pc' = "input"
            /\ UNCHANGED <<stderr, exitCode>>
    /\ UNCHANGED <<scanVars, matches, exc, argRes, resolution, reads, lastLine,
                   downloads>>

\* lines 73-85, 141: one pass of the while loop
ReadLine ==
    /\ pc = "input"
    /\ reads < MaxReads
    /\ \E line \in Lines :
           LET selection == Strip(line)
               index == IntOf(selection)
           IN  /\ lastLine' = line
               /\ IF selection = <<>> \/ ~IsDigit(selection)
                  THEN pc' = "input" /\ UNCHANGED <<exc, resolution>>
                  ELSE IF IntRaises(selection)
                  THEN pc' = "raised" /\ exc' = "ValueError" /\ UNCHANGED resolution
                  ELSE IF ~InRange(index, ordered)
                  THEN pc' = "input" /\ UNCHANGED <<exc, resolution>>
                  ELSE /\ resolution' = SelectedHeight(ordered, index)
                       /\ pc' = IF ~Truthy(resolution') THEN "exit" ELSE "download"
                       /\ UNCHANGED exc
    /\ IF pc' = "exit"
       THEN stderr' = Append(stderr, "no supported resolutions") /\ exitCode' = 1
       ELSE UNCHANGED <<stderr, exitCode>>
    /\ reads' = reads + 1
    /\ UNCHANGED <<scanVars, matches, argRes, ordered, downloads>>

\* lines 148-154, 88-102: download_video and main's return
Download ==
    /\ pc = "download"
    /\ \E result \in {0, 1} :
           /\ downloads' = Append(downloads, [resolution |-> resolution,
                                              format |-> FormatOption(resolution),
                                              result |-> result])
           /\ IF DownloadFailed(result)
              THEN stderr' = Append(stderr, "download failed") /\ exitCode' = 1
              ELSE stderr' = stderr /\ exitCode' = 0
    /\ pc' = "exit"
    /\ UNCHANGED <<scanVars, matches, exc, argRes, resolution, ordered, reads, lastLine>>

Next ==
    \/ FetchAndMatch
    \/ SelectResolution
    \/ PromptForResolution
    \/ ReadLine
    \/ Download

Spec == Init /\ [][Next]_vars

----------------------------------------------------------------------------
(* Vocabulary of the properties *)

Catalog == {360, 480, 720, 1080, 1440, 2160}

\* a record with a height
HasHeight(fmt) == "height" \in DOMAIN fmt /\ fmt["height"] # None

\* a record marked audio-only
AudioOnly(fmt) == "vcodec" \in DOMAIN fmt /\ fmt["vcodec"] = "none"

\* a video record at catalog height h
VideoAt(fmt, h) == HasHeight(fmt) /\ fmt["height"] = h /\ h \in Catalog /\ ~AudioOnly(fmt)

\* a record whose filesize is a number
KnownSize(fmt) == "filesize" \in DOMAIN fmt /\ fmt["filesize"] # None

----------------------------------------------------------------------------
(* Properties of available_resolutions, under SpecMatch *)

\* C1: when available_resolutions returns, for any two video records of the
\* input at the same catalog height h, both of known size, one strictly
\* larger than the other, the table's entry for h is not the smaller record
\* and is a record at least as large as the larger one; and it is the larger
\* record itself when no other video record at h is as large.  Positions a
\* and b range over both orders of appearance.
C1_LargerSizeKept ==
    pc = "returned" =>
        \A a, b \in 1..Len(formats) : \A h \in Catalog :
            ( /\ VideoAt(formats[a], h) /\ VideoAt(formats[b], h)
              /\ KnownSize(formats[a]) /\ KnownSize(formats[b])
              /\ formats[a]["filesize"] < formats[b]["filesize"] )
            => /\ h \in DOMAIN matches
               /\ matches[h] # formats[a]
               /\ KnownSize(matches[h])
               /\ matches[h]["filesize"] >= formats[b]["filesize"]
               /\ ( (\A c \in 1..Len(formats) :
                        (c # b /\ VideoAt(formats[c], h) /\ KnownSize(formats[c]))
                        => formats[c]["filesize"] < formats[b]["filesize"])
                    => matches[h] = formats[b] )

\* the smaller record came first and the larger one replaced it
C1_Witness ==
    /\ pc = "returned"
    /\ Len(formats) = 2
    /\ \E h \in Catalog : VideoAt(formats[1], h) /\ VideoAt(formats[2], h)
    /\ KnownSize(formats[1]) /\ KnownSize(formats[2])
    /\ formats[1]["filesize"] < formats[2]["filesize"]
    /\ matches[formats[1]["height"]] = formats[2]

\* C2: available_resolutions has no error outcome: it never raises, and for
\* the empty sequence it returns the empty mapping.
C2_NoErrorOutcome ==
    /\ pc # "raised"
    /\ exc = ""
    /\ (pc = "returned" /\ formats = <<>>) => matches = EmptyDict

\* C7: the keys of the match table are a subset of the catalog, in every
\* state of the scan and at the return.
C7_KeysInCatalog == DOMAIN matches \subseteq Catalog

\* a video record at height 240 was scanned and a later record was stored
C7_Witness ==
    /\ pc = "scan"
    /\ i = 3
    /\ HasHeight(formats[1]) /\ formats[1]["height"] = 240 /\ ~AudioOnly(formats[1])
    /\ DOMAIN matches = {360}

\* C8: no value of the match table is a record marked audio-only or a record
\* without a height: each value holds the height it is filed under, and no
\* record of the input that is audio-only or has no height is a value.
C8_NoAudioOnlyOrHeightless ==
    /\ \A h \in DOMAIN matches :
           HasHeight(matches[h]) /\ matches[h]["height"] = h /\ ~AudioOnly(matches[h])
    /\ \A k \in 1..Len(formats) :
           (AudioOnly(formats[k]) \/ ~HasHeight(formats[k]))
           => \A h \in DOMAIN matches : matches[h] # formats[k]

\* an audio-only record at 360 with the largest size followed a video record
\* at 360 and was not stored
C8_Witness ==
    /\ pc = "returned"
    /\ Len(formats) = 2
    /\ VideoAt(formats[1], 360) /\ KnownSize(formats[1]) /\ formats[1]["filesize"] = 1
    /\ AudioOnly(formats[2]) /\ HasHeight(formats[2]) /\ formats[2]["height"] = 360
    /\ KnownSize(formats[2]) /\ formats[2]["filesize"] = 2
    /\ matches[360] = formats[1]

\* the case of C9: the next record is a video record at a height already in
\* the table, and its size equals the entry's size or both sizes are unknown
C9_Tie ==
    /\ pc = "scan"
    /\ i <= Len(formats)
    /\ \E h \in DOMAIN matches :
           /\ VideoAt(formats[i], h)
           /\ \/ /\ KnownSize(formats[i]) /\ KnownSize(matches[h])
                 /\ formats[i]["filesize"] = matches[h]["filesize"]
              \/ ~KnownSize(formats[i]) /\ ~KnownSize(matches[h])

\* C9: a later video record at a height already in the table, of a size equal
\* to the entry's or with both sizes unknown, leaves the table as it is (and
\* the scan goes on).
C9_TieKeepsFirst == [][C9_Tie => (matches' = matches /\ pc' = "scan")]_vars

\* two video records at the same height with equal known sizes were scanned
\* and the first is the entry
C9_Witness ==
    /\ pc = "scan"
    /\ i = 3
    /\ \E h \in DOMAIN matches :
           /\ VideoAt(formats[1], h) /\ VideoAt(formats[2], h)
           /\ KnownSize(formats[1]) /\ KnownSize(formats[2])
           /\ formats[1]["filesize"] = formats[2]["filesize"]
           /\ matches[h] = formats[1]

----------------------------------------------------------------------------
(* Properties of the selector and of main, under Spec *)

\* the keys of the match table in catalog order
KeysInCatalogOrder == SelectSeq(SUPPORTED_HEIGHTS, LAMBDA h : h \in DOMAIN matches)

\* the integer a line spells (spaces around it aside), None if it spells none
LineNumber(line) ==
    LET t == Strip(line)
    IN  IF t # <<>> /\ (\A k \in 1..Len(t) : t[k] \in DecimalDigits) THEN IntOf(t) ELSE None

\* the line is an integer within the listed range
ValidChoice(line) == LineNumber(line) \in 1..Len(KeysInCatalogOrder)

\* main got past the matcher (which did not raise)
Matched == pc \notin {"main", "select"} /\ exc # "TypeError"

\* C3: in the prompt's loop, a line that is not an integer in 1..N is
\* rejected: the loop reads again, nothing is raised, and the listed entries
\* and the selection stay as they are; a line that is an integer k in 1..N
\* ends the prompt with the k-th key of the table in catalog order.
C3_PromptRejectsAndReturns ==
    [][ (pc = "input" /\ reads' = reads + 1) =>
        IF ValidChoice(lastLine')
        THEN /\ pc' = "download"
             /\ resolution' = KeysInCatalogOrder[LineNumber(lastLine')]
        ELSE /\ pc' = "input"
             /\ exc' = ""
             /\ ordered' = ordered
             /\ resolution' = resolution ]_vars

\* C4: when -r names a key of the match table, the run selects that height,
\* prints no listing, reads no line, and the download it invokes is the one
\* download of the run, with that height.
C4_SuppliedHeightKept ==
    (Matched /\ argRes # None /\ argRes \in DOMAIN matches) =>
        /\ pc \in {"download", "exit"}
        /\ resolution = argRes
        /\ ordered = <<>>
        /\ reads = 0
        /\ stderr \in {<<>>, <<"download failed">>}
        /\ pc = "exit" =>
              /\ Len(downloads) = 1
              /\ downloads[1]["resolution"] = argRes
              /\ downloads[1]["format"] = argRes

\* -r 480 with 480 and 360 in the table: 480 was downloaded
C4_Witness ==
    /\ pc = "exit"
    /\ argRes = 480
    /\ DOMAIN matches = {360, 480}
    /\ Len(downloads) = 1
    /\ downloads[1]["resolution"] = 480
    /\ reads = 0

\* C5: when -r names a height that is no key of the match table, the height
\* is discarded (with the message on standard error) and the run goes to the
\* prompt: a download happens only after a line was read at the prompt, its
\* height is the one that line chose, and it is never the supplied height.
C5_AbsentHeightDiscarded ==
    (Matched /\ argRes # None /\ argRes \notin DOMAIN matches) =>
        /\ stderr # <<>> /\ stderr[1] = "not available"
        /\ resolution # argRes
        /\ pc \in {"prompt", "input", "download", "exit", "raised"}
        /\ pc = "prompt" => (resolution = None /\ reads = 0)
        /\ (pc = "download" \/ downloads # <<>>) =>
              /\ reads >= 1
              /\ ordered # <<>>
              /\ ValidChoice(lastLine)
              /\ resolution = KeysInCatalogOrder[LineNumber(lastLine)]
        /\ \A k \in 1..Len(downloads) :
              /\ downloads[k]["resolution"] = resolution
              /\ downloads[k]["resolution"] # argRes

\* -r 480 with only 360 in the table: 360 was chosen at the prompt and
\* downloaded
C5_Witness ==
    /\ pc = "exit"
    /\ argRes = 480
    /\ DOMAIN matches = {360}
    /\ reads >= 1
    /\ Len(downloads) = 1
    /\ downloads[1]["resolution"] = 360

\* C6: main returns only at its exit, 0 or 1; 0 exactly when the download was
\* invoked and reported status 0; 1 with an empty match table (no listing, no
\* line read, the "no supported resolutions" message, no download); 1 when
\* the download reported a non-zero status (the "download failed" message).
C6_ExitCode ==
    /\ (pc = "exit") <=> (exitCode # None)
    /\ (matches = EmptyDict /\ Matched) => (pc \in {"prompt", "exit"} /\ downloads = <<>>)
    /\ pc = "exit" =>
          /\ exitCode \in {0, 1}
          /\ (exitCode = 0) <=> (Len(downloads) = 1 /\ downloads[1]["result"] = 0)
          /\ matches = EmptyDict =>
                /\ exitCode = 1
                /\ ordered = <<>> /\ reads = 0
                /\ stderr[Len(stderr)] = "no supported resolutions"
          /\ (downloads # <<>> /\ downloads[Len(downloads)]["result"] # 0) =>
                /\ exitCode = 1
                /\ stderr[Len(stderr)] = "download failed"

\* the download was invoked and reported status 1
C6_Witness ==
    /\ pc = "exit"
    /\ exitCode = 1
    /\ Len(downloads) = 1
    /\ downloads[1]["result"] = 1
    /\ stderr[Len(stderr)] = "download failed"

\* C10: the download is invoked at most once, and only as the last step of
\* the run, after the match table was built and a height selected; its
\* height is the selected one, a key of the match table, and its format
\* expression is set, for that height.
C10_DownloadOnceWithTableKey ==
    /\ Len(downloads) <= 1
    /\ downloads # <<>> => pc = "exit"
    /\ pc = "download" => (exc = "" /\ resolution \in DOMAIN matches)
    /\ \A k \in 1..Len(downloads) :
          /\ downloads[k]["resolution"] = resolution
          /\ downloads[k]["resolution"] \in DOMAIN matches
          /\ downloads[k]["format"] # None
          /\ downloads[k]["format"] = downloads[k]["resolution"]

\* the second listed height was chosen at the prompt, after a rejected line,
\* and downloaded
C10_Witness ==
    /\ pc = "exit"
    /\ argRes = None
    /\ reads = 2
    /\ DOMAIN matches = {360, 480}
    /\ Len(downloads) = 1
    /\ downloads[1]["resolution"] = 480

====
